---- MODULE Spec2Model ----
(***************************************************************************)
(* fetch_policy_emails.py: ingestion of a date-windowed set of Outlook     *)
(* messages, normalisation, de-duplication and ordering, the merged        *)
(* payload, and the two-step (extract -> report) generation pipeline with  *)
(* its synchronous, detached and polling-wait execution shapes.            *)
(***************************************************************************)
EXTENDS Integers, Sequences, FiniteSets, TLC

\* ------------------------------------------------------------------ bounds
\* Timestamps are whole days 0..MaxTime.
MaxTime == 3
\* Largest Count a folder's item collection reports in a run of main().
MaxMsgs == 1
\* Longest record list handed to the aggregation step on its own.
MaxRecs == 2
\* Longest model response text handed to the extractor's JSON recovery.
MaxLen == 4

\* UTC offset of the machine's local zone, in days (dt.astimezone()).
LocalUtcOffset == 1

Time == 0..MaxTime

\* Python's None / an absent optional value; Some(x) is a present one.
None == <<>>
Some(x) == <<x>>
Val(o) == o[1]

Min(S) == CHOOSE x \in S : \A y \in S : x <= y
Max(S) == CHOOSE x \in S : \A y \in S : x >= y

\* ------------------------------------------------------------ date values
\* A datetime: wall-clock day t and tzinfo (None = naive, Some(off) = aware
\* with UTC offset off).
DateTimes == [t : Time, tz : {None, Some(0)}]

\* to_naive_local: aware -> local wall clock with tzinfo dropped; naive
\* passes through; None stays None.  The result is an optional day number.
to_naive_local(dt) ==
    IF dt = None THEN None
    ELSE IF Val(dt).tz = None THEN Some(Val(dt).t)
    ELSE Some(Val(dt).t - Val(Val(dt).tz) + LocalUtcOffset)

\* --------------------------------------------------------- raw header block
\* A header line is name ':' value.  The value of a Date line is either text
\* that parsedate_to_datetime rejects ("bad"), empty (""), or a datetime.
HeaderNames == {"Subject", "Date", "date"}
Lower(name) == IF name = "Date" THEN "date" ELSE IF name = "Subject" THEN "subject" ELSE name

HeaderValues == {[kind |-> "bad", dt |-> None], [kind |-> "empty", dt |-> None]}
                \cup {[kind |-> "date", dt |-> Some(d)] : d \in DateTimes}
HeaderLines == [name : HeaderNames, value : HeaderValues]
DateLines == {l \in HeaderLines : Lower(l.name) = "date"}
OtherLines == {l \in HeaderLines : Lower(l.name) # "date" /\ l.value.kind = "bad"}
\* Lines that come first in a two-line block: a non-Date line, or a Date line
\* whose value does not parse.
LeadLines == OtherLines \cup {l \in DateLines : l.value.kind = "bad" /\ l.name = "Date"}

\* Header blocks a message may expose: none (no PropertyAccessor, or
\* GetProperty raises), the empty string, one line, or two lines.
HeaderBlocks ==
    {None, Some(<<>>)}
    \cup {Some(<<l>>) : l \in {d \in DateLines : d.name = "Date"} \cup OtherLines}
    \cup {Some(<<a, b>>) : a \in LeadLines, b \in {l \in DateLines : l.name = "date"}}

\* Index of the first line whose lower-cased name is 'date', 0 if none.
FirstDateLine(lines) ==
    IF \E i \in 1..Len(lines) : Lower(lines[i].name) = "date"
    THEN Min({i \in 1..Len(lines) : Lower(lines[i].name) = "date"})
    ELSE 0

\* _parse_header_date_from_raw_headers: the first Date line decides; an
\* empty or unparsable value gives None.
_parse_header_date_from_raw_headers(raw_headers) ==
    IF raw_headers = None \/ raw_headers = Some(<<>>) THEN None
    ELSE LET lines == Val(raw_headers)
             k == FirstDateLine(lines)
         IN  IF k = 0 THEN None
             ELSE IF lines[k].value.kind # "date" THEN None
             ELSE to_naive_local(lines[k].value.dt)

\* ------------------------------------------------------------ raw messages
\* What one Outlook item exposes to the normaliser.
Messages ==
    [ReceivedTime : {None} \cup {Some(d) : d \in DateTimes},
     InternetMessageID : {"", "A"},
     EntryID : {"", "E"},
     raw_headers : HeaderBlocks]

\* Content fingerprint fallback: sha256 of subject|sender|received|body.
Sha256(received) == "sha256:" \o ToString(received)

\* Identity: InternetMessageID, else EntryID, else the fingerprint.
MessageId(msg, received) ==
    IF msg.InternetMessageID # "" THEN msg.InternetMessageID
    ELSE IF msg.EntryID # "" THEN msg.EntryID
    ELSE Sha256(received)

\* Path of the persisted body: the receipt stamp names the file.
TxtPath(received) == <<"mail", received>>

\* Variant: chosen_date = received or parsed_header_date.
save_mail_and_attachments_received_first(msg) ==
    LET received == Val(to_naive_local(msg.ReceivedTime))
        parsed_header_date == _parse_header_date_from_raw_headers(msg.raw_headers)
    IN  [txt |-> TxtPath(received),
         received |-> received,
         message_id |-> MessageId(msg, received),
         chosen_date |-> received,
         date_source |-> IF parsed_header_date # None THEN "header_date" ELSE "received_time"]

\* save_mail_and_attachments, for a message whose ReceivedTime is present:
\* (txt_path, received_local, message_id, chosen_date, date_source).
save_mail_and_attachments(msg) ==
    LET received == Val(to_naive_local(msg.ReceivedTime))
        parsed_header_date == _parse_header_date_from_raw_headers(msg.raw_headers)
    IN  [txt |-> TxtPath(received),
         received |-> received,
         message_id |-> MessageId(msg, received),
         chosen_date |-> IF parsed_header_date # None THEN Val(parsed_header_date) ELSE received,
         date_source |-> IF parsed_header_date # None THEN "header_date" ELSE "received_time"]

\* ------------------------------------------------------------- aggregation
\* A saved-email record: txt (path of the body file), received (the canonical
\* timestamp, optional), message_id ("" = none), date_source, raw_received.
Truthy(mid) == mid # ""

\* Variant: a later record of an id replaces the one kept before.
RECURSIVE DedupeLoopKeepLast(_, _, _, _)
DedupeLoopKeepLast(recs, i, unique, deduped) ==
    IF i > Len(recs) THEN deduped
    ELSE LET rec == recs[i]
             mid == rec.message_id
         IN  IF ~Truthy(mid) THEN DedupeLoopKeepLast(recs, i + 1, unique, Append(deduped, rec))
             ELSE IF mid \in unique
                  THEN DedupeLoopKeepLast(recs, i + 1, unique,
                          Append(SelectSeq(deduped, LAMBDA r : r.message_id # mid), rec))
                  ELSE DedupeLoopKeepLast(recs, i + 1, unique \cup {mid}, Append(deduped, rec))

\* Variant: the 'if not mid' test is missing, so "" counts as an id.
RECURSIVE DedupeLoopNoIdIsId(_, _, _, _)
DedupeLoopNoIdIsId(recs, i, unique, deduped) ==
    IF i > Len(recs) THEN deduped
    ELSE LET rec == recs[i]
             mid == rec.message_id
         IN  IF mid \in unique THEN DedupeLoopNoIdIsId(recs, i + 1, unique, deduped)
             ELSE DedupeLoopNoIdIsId(recs, i + 1, unique \cup {mid}, Append(deduped, rec))

\* Dedupe by message_id (the loop over saved_emails): a record without an id
\* is always kept; the first record of an id is kept, later ones are dropped.
RECURSIVE DedupeLoop(_, _, _, _)
DedupeLoop(recs, i, unique, deduped) ==
    IF i > Len(recs) THEN deduped
    ELSE LET rec == recs[i]
             mid == rec.message_id
         IN  IF ~Truthy(mid) THEN DedupeLoop(recs, i + 1, unique, Append(deduped, rec))
             ELSE IF mid \in unique THEN DedupeLoop(recs, i + 1, unique, deduped)
             ELSE DedupeLoop(recs, i + 1, unique \cup {mid}, Append(deduped, rec))

DedupeKeepLast(recs) == DedupeLoopKeepLast(recs, 1, {}, <<>>)

DedupeNoIdIsId(recs) == DedupeLoopNoIdIsId(recs, 1, {}, <<>>)

Dedupe(recs) == DedupeLoop(recs, 1, {}, <<>>)

\* The sort key: r.get('received') or since.
SortKey(r, since_dt) == IF r.received # None THEN Val(r.received) ELSE since_dt

\* list.sort is stable: a record goes after every record whose key is <= its
\* own, which is what inserting the records left to right gives.
InsertAfterEqual(sorted, r, since_dt) ==
    LET k == Cardinality({j \in 1..Len(sorted) : SortKey(sorted[j], since_dt) <= SortKey(r, since_dt)})
    IN  SubSeq(sorted, 1, k) \o <<r>> \o SubSeq(sorted, k + 1, Len(sorted))

\* Variant: a record goes before the records whose key equals its own.
InsertBeforeEqual(sorted, r, since_dt) ==
    LET k == Cardinality({j \in 1..Len(sorted) : SortKey(sorted[j], since_dt) < SortKey(r, since_dt)})
    IN  SubSeq(sorted, 1, k) \o <<r>> \o SubSeq(sorted, k + 1, Len(sorted))

RECURSIVE SortFrom(_, _, _, _)
SortFrom(recs, i, sorted, since_dt) ==
    IF i > Len(recs) THEN sorted
    ELSE SortFrom(recs, i + 1, InsertAfterEqual(sorted, recs[i], since_dt), since_dt)

RECURSIVE SortFromUnstable(_, _, _, _)
SortFromUnstable(recs, i, sorted, since_dt) ==
    IF i > Len(recs) THEN sorted
    ELSE SortFromUnstable(recs, i + 1, InsertBeforeEqual(sorted, recs[i], since_dt), since_dt)

SortByReceivedUnstable(recs, since_dt) == SortFromUnstable(recs, 1, <<>>, since_dt)

SortByReceived(recs, since_dt) == SortFrom(recs, 1, <<>>, since_dt)

\* Dedupe, then sort: what main does to saved_emails before labelling.
DedupeAndSort(recs, since_dt) == SortByReceived(Dedupe(recs), since_dt)

\* The date range label.  A timestamp is a whole day, so '%y%m%d' spells the
\* day itself.
Dates(recs) == {Val(recs[i].received) : i \in {j \in 1..Len(recs) : recs[j].received # None}}

LabelStart(recs, since_dt, until_dt) ==
    IF Dates(recs) # {} THEN Max({Min(Dates(recs)), since_dt}) ELSE since_dt

LabelEnd(recs, since_dt, until_dt) ==
    IF Dates(recs) # {} THEN Min({Max(Dates(recs)), until_dt}) ELSE until_dt

\* The payload has one block per record, in list order; a block carries
\* idx+1, the total and the text read from the record's file (empty when the
\* file cannot be read).
ReadText(disk, path) == IF path \in disk THEN <<path>> ELSE <<>>

\* Variant: the blocks are taken from the end of the list.
build_package_from_saved_emails_reversed(saved, disk) ==
    [k \in 1..Len(saved) |->
        [idx |-> k, of |-> Len(saved), text |-> ReadText(disk, saved[Len(saved) + 1 - k].txt)]]

\* build_package_from_saved_emails.
build_package_from_saved_emails(saved, disk) ==
    [k \in 1..Len(saved) |->
        [idx |-> k, of |-> Len(saved), text |-> ReadText(disk, saved[k].txt)]]

\* --------------------------------------------------------- response texts
\* A text is a sequence of characters: braces, a prose letter, a blank, a
\* digit.  Over these characters a JSON document is, blanks around it aside,
\* a number (digits) or an object with nothing but blanks between its braces.
Chars == {"{", "}", "p", " ", "1"}

Find(text, c) ==
    IF \E i \in 1..Len(text) : text[i] = c THEN Min({i \in 1..Len(text) : text[i] = c}) ELSE 0

RFind(text, c) ==
    IF \E i \in 1..Len(text) : text[i] = c THEN Max({i \in 1..Len(text) : text[i] = c}) ELSE 0

\* str.strip()
Strip(text) ==
    IF \A i \in 1..Len(text) : text[i] = " " THEN <<>>
    ELSE SubSeq(text, Min({i \in 1..Len(text) : text[i] # " "}),
                      Max({i \in 1..Len(text) : text[i] # " "}))

\* json.loads(text) succeeds.
IsJSON(text) ==
    LET s == Strip(text)
    IN  /\ Len(s) > 0
        /\ \/ \A i \in 1..Len(s) : s[i] = "1"
           \/ /\ Len(s) >= 2
              /\ s[1] = "{"
              /\ s[Len(s)] = "}"
              /\ \A i \in 2..(Len(s) - 1) : s[i] = " "

\* re.search(r'\{.*\}', text, re.S): the leftmost '{' that has a '}' after
\* it, extended greedily to the last '}' of the text; None if no match.
RegexBraceBlock(text) ==
    LET opens == {i \in 1..Len(text) : text[i] = "{" /\ \E j \in (i + 1)..Len(text) : text[j] = "}"}
    IN  IF opens = {} THEN None
        ELSE Some(SubSeq(text, Min(opens), RFind(text, "}")))

\* Variant: the validated slice is tested but the whole text is returned.
_extract_first_json_block_returns_text(text) ==
    LET start == Find(text, "{")
        end == RFind(text, "}")
        candidate == SubSeq(text, start, end)
        m == RegexBraceBlock(text)
    IN  IF start # 0 /\ end # 0 /\ end > start /\ IsJSON(candidate) THEN text
        ELSE IF m # None THEN Val(m)
        ELSE text

\* _extract_first_json_block: the slice from the first '{' to the last '}' if
\* it parses; else the regex block, parsed or not; else the text itself.
_extract_first_json_block(text) ==
    LET start == Find(text, "{")
        end == RFind(text, "}")
        candidate == SubSeq(text, start, end)
        m == RegexBraceBlock(text)
    IN  IF start # 0 /\ end # 0 /\ end > start /\ IsJSON(candidate) THEN candidate
        ELSE IF m # None THEN Val(m)
        ELSE text

\* call_openai_extract_updates, from the collaborator's response on: the
\* stripped content if it is JSON, else what the recovery step returns.
ExtractResult(content) ==
    LET json_text == Strip(content)
    IN  IF IsJSON(json_text) THEN json_text ELSE _extract_first_json_block(json_text)

\* json.dumps(json.loads(text)): the document re-serialised, blanks dropped.
JsonDumps(text) == SelectSeq(text, LAMBDA c : c # " ")

\* ------------------------------------------------------------------- state
VARIABLES
    since,                 \* window start (naive local), after the swap
    until,                 \* window end; main's 'now' is rebound to it
    pc,                    \* where main() is
    exit_code,             \* None while main runs, Some(status) once it ended
    items,                 \* what restrict_items_range returned: via, Count
    i,                     \* loop index over items
    last,                  \* what the loop did with the item it saw last
    fetched,               \* saved_emails as the loop builds it
    disk,                  \* per-message body files written to outdir
    saved_emails,          \* saved_emails after dedupe and sort
    start,                 \* label start day
    end,                   \* label end day
    payload,               \* merged payload (ALL_<start>-<end>.txt)
    dumped,                \* the optional dump file was written
    only_dump,             \* --only-dump, as read next to the dump
    only_extract,          \* --only-extract, as read after Step 1
    detach_openai,         \* DETACH_OPENAI == 'true'
    json_input,            \* --json-input: "unread", "absent", "ok", "unreadable"
    extract_state,         \* Extraction Stage call: idle, running, ok, failed
    report_state,          \* Report Stage call: idle, running, ok, failed
    structured_json_text,  \* what the extractor returned / the supplied JSON
    extract_artifact,      \* EXTRACT_<start>-<end>.json, None until written
    report_artifact,       \* Weekly_report_<start>-<end>.md, None until written
    worker,                \* the thread running the report step, if any
    arg,                   \* input of a function exercised on its own
    ret                    \* its result

vars == <<since, until, pc, exit_code, items, i, last, fetched, disk, saved_emails,
          start, end, payload, dumped, only_dump, only_extract, detach_openai, json_input, extract_state,
          report_state, structured_json_text, extract_artifact, report_artifact,
          worker, arg, ret>>

windowVars == <<since, until>>
fetchVars == <<items, i, last, fetched, disk>>
aggVars == <<saved_emails, start, end, payload>>
optVars == <<dumped, only_dump, only_extract>>
genVars == <<detach_openai, json_input, extract_state, report_state,
             structured_json_text, extract_artifact, report_artifact, worker>>
fnVars == <<arg, ret>>

NoItems == [via |-> "none", Count |-> 0, count_raises |-> FALSE]
NoLast == [kind |-> "none", raw_received |-> None]

\* Everything but the window, the position and the function under test.
Fresh ==
    /\ exit_code = None
    /\ items = NoItems
    /\ i = 1
    /\ last = NoLast
    /\ fetched = <<>>
    /\ disk = {}
    /\ saved_emails = <<>>
    /\ start = 0
    /\ end = 0
    /\ payload = <<>>
    /\ dumped = FALSE
    /\ only_dump = FALSE
    /\ only_extract = FALSE
    /\ detach_openai = FALSE
    /\ json_input = "unread"
    /\ extract_state = "idle"
    /\ report_state = "idle"
    /\ structured_json_text = <<>>
    /\ extract_artifact = None
    /\ report_artifact = None
    /\ worker = "none"

\* --since / --until as days; main swaps them when since > until.
Window ==
    \E s \in 1..(MaxTime - 1), u \in 1..(MaxTime - 1) :
        /\ since = IF s > u THEN u ELSE s
        /\ until = IF s > u THEN s ELSE u

Init ==
    /\ Window
    /\ pc = "fetch"
    /\ Fresh
    /\ arg = None
    /\ ret = None

\* main returns (status 0) or calls sys.exit(status).
Exit(status) ==
    /\ pc' = "done"
    /\ exit_code' = Some(status)

\* ---------------------------------------------------------- fetching mail
\* win32com missing (exit 2) or the folder cannot be opened (exit 3).
FetchUnavailable ==
    /\ pc = "fetch"
    /\ \E status \in {2, 3} : Exit(status)
    /\ UNCHANGED <<windowVars, fetchVars, aggVars, optVars, genVars, fnVars>>

\* USE_MOCK_EMAILS: one synthetic record dated at the middle of the window.
MockEmails ==
    /\ pc = "fetch"
    /\ LET mid_dt == since + ((until - since) \div 2)
       IN  /\ fetched' = <<[txt |-> <<"mock_email_1">>,
                            received |-> Some(mid_dt),
                            message_id |-> "mock-1",
                            date_source |-> "mock",
                            raw_received |-> mid_dt]>>
           /\ disk' = {<<"mock_email_1">>}
    /\ pc' = "dedupe"
    /\ UNCHANGED <<windowVars, exit_code, items, i, last, aggVars, optVars, genVars, fnVars>>

\* What the store answers to a Restrict call: it raises (the filter is
\* rejected), or it accepts the filter and gives a collection with some Count
\* ("ok"), or one whose Count cannot be read ("ok_no_count").
RestrictOutcomes == [kind : {"raise", "ok", "ok_no_count"}, Count : 0..MaxMsgs]

\* Variant: an accepted DASL restriction is returned whatever its Count.
restrict_items_range_trusts_empty(has_items, dasl, mapi, total) ==
    IF ~has_items THEN NoItems
    ELSE IF dasl.kind # "raise"
    THEN [via |-> "dasl", Count |-> dasl.Count, count_raises |-> dasl.kind = "ok_no_count"]
    ELSE IF mapi.kind # "raise"
    THEN [via |-> "mapi", Count |-> mapi.Count, count_raises |-> mapi.kind = "ok_no_count"]
    ELSE [via |-> "all", Count |-> total, count_raises |-> FALSE]

\* restrict_items_range.  has_items: the folder has an Items collection;
\* dasl / mapi: the store's answers to the two Restrict calls; total: Count
\* of the unfiltered collection.  The DASL result is returned if its Count is
\* positive or cannot be read; otherwise the MAPI restriction is tried and
\* its result returned as it is; if that raises, the unfiltered collection.
restrict_items_range(has_items, dasl, mapi, total) ==
    IF ~has_items THEN NoItems
    ELSE IF dasl.kind = "ok_no_count" \/ (dasl.kind = "ok" /\ dasl.Count > 0)
    THEN [via |-> "dasl", Count |-> dasl.Count, count_raises |-> dasl.kind = "ok_no_count"]
    ELSE IF mapi.kind # "raise"
    THEN [via |-> "mapi", Count |-> mapi.Count, count_raises |-> mapi.kind = "ok_no_count"]
    ELSE [via |-> "all", Count |-> total, count_raises |-> FALSE]

\* main calls restrict_items_range and reads the collection's Count; a Count
\* that raises is not caught there, so the interpreter ends with status 1.
RestrictItems ==
    /\ pc = "fetch"
    /\ \E has_items \in BOOLEAN, dasl \in RestrictOutcomes, mapi \in RestrictOutcomes,
          total \in 0..MaxMsgs :
          items' = restrict_items_range(has_items, dasl, mapi, total)
    /\ i' = 1
    /\ fetched' = <<>>
    /\ IF items'.count_raises
       THEN Exit(1)
       ELSE pc' = "loop" /\ UNCHANGED exit_code
    /\ UNCHANGED <<windowVars, last, disk, aggVars, optVars, genVars, fnVars>>

\* Variant: the window's bounds are excluded.
OutOfWindowExclusive(raw_received, since_dt, now) == raw_received <= since_dt \/ raw_received >= now

\* The client-side window test on the receipt time.
OutOfWindow(raw_received, since_dt, now) == raw_received < since_dt \/ raw_received > now

\* One iteration of the loop over items: Item(i) may raise; a message without
\* a receipt time or out of the window is skipped; otherwise the message is
\* saved and its record appended, unless saving raises (before or after the
\* body file was written), which is logged and skipped too.
LoopItem ==
    /\ pc = "loop"
    /\ i <= items.Count
    /\ \/ /\ last' = [kind |-> "item_error", raw_received |-> None]
          /\ UNCHANGED <<fetched, disk>>
       \/ \E msg \in Messages :
            LET raw_received == to_naive_local(msg.ReceivedTime)
                saved == save_mail_and_attachments(msg)
            IN  IF raw_received = None
                THEN /\ last' = [kind |-> "no_received", raw_received |-> None]
                     /\ UNCHANGED <<fetched, disk>>
                ELSE IF OutOfWindow(Val(raw_received), since, until)
                THEN /\ last' = [kind |-> "out_of_window", raw_received |-> raw_received]
                     /\ UNCHANGED <<fetched, disk>>
                ELSE \/ /\ last' = [kind |-> "failed", raw_received |-> raw_received]
                        /\ \E written \in BOOLEAN :
                              disk' = IF written THEN disk \cup {saved.txt} ELSE disk
                        /\ UNCHANGED fetched
                     \/ /\ last' = [kind |-> "saved", raw_received |-> raw_received]
                        /\ disk' = disk \cup {saved.txt}
                        /\ fetched' = Append(fetched,
                               [txt |-> saved.txt,
                                received |-> Some(saved.chosen_date),
                                message_id |-> saved.message_id,
                                date_source |-> saved.date_source,
                                raw_received |-> saved.received])
    /\ i' = i + 1
    /\ UNCHANGED <<windowVars, pc, exit_code, items, aggVars, optVars, genVars, fnVars>>

\* The loop is over: nothing saved -> 'no messages found', return.
LoopEnd ==
    /\ pc = "loop"
    /\ i > items.Count
    /\ last' = NoLast
    /\ IF fetched = <<>>
       THEN Exit(0)
       ELSE pc' = "dedupe" /\ UNCHANGED exit_code
    /\ UNCHANGED <<windowVars, items, i, fetched, disk, aggVars, optVars, genVars, fnVars>>

\* ------------------------------------------------------- aggregating
\* Dedupe by message_id, sort by received, compute the label, build the
\* merged payload and write it.
Aggregate ==
    /\ pc = "dedupe"
    /\ LET sorted == DedupeAndSort(fetched, since)
       IN  /\ saved_emails' = sorted
           /\ start' = LabelStart(sorted, since, until)
           /\ end' = LabelEnd(sorted, since, until)
           /\ payload' = build_package_from_saved_emails(sorted, disk)
    /\ pc' = "dump"
    /\ UNCHANGED <<windowVars, exit_code, fetchVars, optVars, genVars, fnVars>>

\* Optional dump: --dump-payload or DUMP_PAYLOAD_PATH; --only-dump returns
\* here, inside the branch that wrote the dump.
OptionalDump ==
    /\ pc = "dump"
    /\ \E dump_path \in BOOLEAN, flag \in BOOLEAN :
          /\ dumped' = dump_path
          /\ only_dump' = flag
          /\ UNCHANGED only_extract
          /\ IF dump_path /\ flag
             THEN Exit(0)
             ELSE pc' = "skip_openai" /\ UNCHANGED exit_code
    /\ UNCHANGED <<windowVars, fetchVars, aggVars, genVars, fnVars>>

\* ------------------------------------------------------ before the stages
\* SKIP_OPENAI=true: a placeholder report is written and main returns.
SkipOpenAI ==
    /\ pc = "skip_openai"
    /\ \E skip \in BOOLEAN :
          IF skip
          THEN /\ report_artifact' = Some(<<"SKIPPED">>)
               /\ Exit(0)
          ELSE /\ pc' = "key"
               /\ UNCHANGED <<exit_code, report_artifact>>
    /\ UNCHANGED <<windowVars, fetchVars, aggVars, optVars, detach_openai, json_input,
                   extract_state, report_state, structured_json_text, extract_artifact,
                   worker, fnVars>>

\* OPENAI_API_KEY missing -> exit 4; otherwise DETACH_OPENAI is read.
CheckKey ==
    /\ pc = "key"
    /\ \E has_key \in BOOLEAN, detach \in BOOLEAN :
          IF ~has_key
          THEN /\ Exit(4)
               /\ UNCHANGED detach_openai
          ELSE /\ detach_openai' = detach
               /\ pc' = "json_input"
               /\ UNCHANGED exit_code
    /\ UNCHANGED <<windowVars, fetchVars, aggVars, optVars, json_input, extract_state,
                   report_state, structured_json_text, extract_artifact, report_artifact,
                   worker, fnVars>>

\* Texts the model's collaborator answers with, and the text of a supplied
\* JSON file.
SampleResponses ==
    {<<"{", "}">>, <<"p", "{", "}", "p">>, <<"p", "{", "p", "}">>}
SuppliedJson == <<"{", "}">>

\* Variant: without --json-input main goes straight on to Step 2.
JsonInputSkipsStep1 ==
    /\ pc = "json_input"
    /\ \E ji \in {"absent", "ok", "unreadable"} :
          /\ json_input' = ji
          /\ IF ji = "unreadable"
             THEN Exit(5) /\ UNCHANGED structured_json_text
             ELSE IF ji = "ok"
             THEN /\ structured_json_text' = SuppliedJson
                  /\ pc' = "gen_only"
                  /\ UNCHANGED exit_code
             ELSE /\ pc' = "step2"
                  /\ UNCHANGED <<exit_code, structured_json_text>>
    /\ UNCHANGED <<windowVars, fetchVars, aggVars, optVars, detach_openai, extract_state,
                   report_state, extract_artifact, report_artifact, worker, fnVars>>

\* --json-input: unreadable -> exit 5; readable -> the report-only path;
\* absent -> Step 1.
JsonInput ==
    /\ pc = "json_input"
    /\ \E ji \in {"absent", "ok", "unreadable"} :
          /\ json_input' = ji
          /\ IF ji = "unreadable"
             THEN Exit(5) /\ UNCHANGED structured_json_text
             ELSE IF ji = "ok"
             THEN /\ structured_json_text' = SuppliedJson
                  /\ pc' = "gen_only"
                  /\ UNCHANGED exit_code
             ELSE /\ pc' = "extract"
                  /\ UNCHANGED <<exit_code, structured_json_text>>
    /\ UNCHANGED <<windowVars, fetchVars, aggVars, optVars, detach_openai, extract_state,
                   report_state, extract_artifact, report_artifact, worker, fnVars>>

\* ------------------------------------------------ report from supplied JSON
\* Detached: _gen_only is handed to a daemon thread and main returns.
GenOnlyDetach ==
    /\ pc = "gen_only"
    /\ detach_openai
    /\ worker' = "gen_only"
    /\ Exit(0)
    /\ UNCHANGED <<windowVars, fetchVars, aggVars, optVars, detach_openai, json_input,
                   extract_state, report_state, structured_json_text, extract_artifact,
                   report_artifact, fnVars>>

\* Not detached: main itself calls _gen_only; the Report Stage call starts.
GenOnlyCall ==
    /\ pc = "gen_only"
    /\ ~detach_openai
    /\ report_state' = "running"
    /\ pc' = "gen_only_wait"
    /\ UNCHANGED <<windowVars, exit_code, fetchVars, aggVars, optVars, detach_openai,
                   json_input, extract_state, structured_json_text, extract_artifact,
                   report_artifact, worker, fnVars>>

\* The call returns Markdown, which is written, or raises: nothing catches
\* it, so the interpreter ends with status 1.
GenOnlyReturn ==
    /\ pc = "gen_only_wait"
    /\ \E ok \in BOOLEAN :
          IF ok
          THEN /\ report_state' = "ok"
               /\ report_artifact' = Some(<<"md">>)
               /\ Exit(0)
          ELSE /\ report_state' = "failed"
               /\ Exit(1)
               /\ UNCHANGED report_artifact
    /\ UNCHANGED <<windowVars, fetchVars, aggVars, optVars, detach_openai, json_input,
                   extract_state, structured_json_text, extract_artifact, worker,
                   fnVars>>

\* ----------------------------------------------------------- Step 1
\* main calls call_openai_extract_updates.
ExtractCall ==
    /\ pc = "extract"
    /\ extract_state' = "running"
    /\ pc' = "extracting"
    /\ UNCHANGED <<windowVars, exit_code, fetchVars, aggVars, optVars, detach_openai,
                   json_input, report_state, structured_json_text, extract_artifact,
                   report_artifact, worker, fnVars>>

\* Variant: a call that raised is made again.
ExtractReturnRetries ==
    /\ pc = "extracting"
    /\ \/ /\ extract_state' = "failed"
          /\ pc' = "extract"
          /\ UNCHANGED <<exit_code, structured_json_text, extract_artifact>>
       \/ \E content \in SampleResponses :
            LET sj == ExtractResult(content)
            IN  /\ structured_json_text' = sj
                /\ extract_state' = "ok"
                /\ extract_artifact' = Some([valid |-> IsJSON(sj),
                                             text |-> IF IsJSON(sj) THEN JsonDumps(sj) ELSE sj])
                /\ pc' = "only_extract"
                /\ UNCHANGED exit_code
    /\ UNCHANGED <<windowVars, fetchVars, aggVars, optVars, detach_openai, json_input,
                   report_state, report_artifact, worker, fnVars>>

\* The call raises -> 'extractor call failed', exit 6.  Otherwise its result
\* is parsed: valid JSON is re-serialised into the artifact, anything else is
\* written raw with a warning.
ExtractReturn ==
    /\ pc = "extracting"
    /\ \/ /\ extract_state' = "failed"
          /\ Exit(6)
          /\ UNCHANGED <<structured_json_text, extract_artifact>>
       \/ \E content \in SampleResponses :
            LET sj == ExtractResult(content)
            IN  /\ structured_json_text' = sj
                /\ extract_state' = "ok"
                /\ extract_artifact' = Some([valid |-> IsJSON(sj),
                                             text |-> IF IsJSON(sj) THEN JsonDumps(sj) ELSE sj])
                /\ pc' = "only_extract"
                /\ UNCHANGED exit_code
    /\ UNCHANGED <<windowVars, fetchVars, aggVars, optVars, detach_openai, json_input,
                   report_state, report_artifact, worker, fnVars>>

\* Variant: an artifact that is not valid JSON stops the run as well.
OnlyExtractStopsOnMalformed ==
    /\ pc = "only_extract"
    /\ \E flag \in BOOLEAN :
          /\ only_extract' = flag
          /\ IF flag \/ ~Val(extract_artifact).valid
             THEN Exit(0)
             ELSE pc' = "step2" /\ UNCHANGED exit_code
    /\ UNCHANGED <<windowVars, fetchVars, aggVars, dumped, only_dump, genVars, fnVars>>

\* --only-extract: stop after Step 1; otherwise go on to Step 2, whatever
\* was written to the extraction artifact.
OnlyExtract ==
    /\ pc = "only_extract"
    /\ \E flag \in BOOLEAN :
          /\ only_extract' = flag
          /\ IF flag
             THEN Exit(0)
             ELSE pc' = "step2" /\ UNCHANGED exit_code
    /\ UNCHANGED <<windowVars, fetchVars, aggVars, dumped, only_dump, genVars, fnVars>>

\* ----------------------------------------------------------- Step 2
\* Variant: the thread is started and main waits for it.
Step2DetachJoins ==
    /\ pc = "step2"
    /\ detach_openai
    /\ worker' = "two_step"
    /\ pc' = "polling"
    /\ UNCHANGED <<windowVars, exit_code, fetchVars, aggVars, optVars, detach_openai,
                   json_input, extract_state, report_state, structured_json_text,
                   extract_artifact, report_artifact, fnVars>>

\* Detached: _run_two_step_generate_sync goes to a daemon thread and main
\* returns.
Step2Detach ==
    /\ pc = "step2"
    /\ detach_openai
    /\ worker' = "two_step"
    /\ Exit(0)
    /\ UNCHANGED <<windowVars, fetchVars, aggVars, optVars, detach_openai, json_input,
                   extract_state, report_state, structured_json_text, extract_artifact,
                   report_artifact, fnVars>>

\* Not detached: asyncio.run(_wait_with_progress(...)); the step runs in a
\* thread (asyncio.to_thread) while main waits on the task.
Step2Polling ==
    /\ pc = "step2"
    /\ ~detach_openai
    /\ worker' = "two_step"
    /\ pc' = "polling"
    /\ UNCHANGED <<windowVars, exit_code, fetchVars, aggVars, optVars, detach_openai,
                   json_input, extract_state, report_state, structured_json_text,
                   extract_artifact, report_artifact, fnVars>>

WorkerEnded == worker \in {"returned", "raised"}

\* _wait_with_progress: the task is not done; 'waiting for OpenAI result...'
\* is logged, the wait times out after one interval and the loop goes round.
Poll ==
    /\ pc = "polling"
    /\ ~WorkerEnded
    /\ UNCHANGED vars

\* The task is done: task.result() gives the step's return value, or raises
\* what the step raised -> 'failed while generating report', exit 7.
PollDone ==
    /\ pc = "polling"
    /\ WorkerEnded
    /\ IF worker = "raised" THEN Exit(7) ELSE Exit(0)
    /\ UNCHANGED <<windowVars, fetchVars, aggVars, optVars, genVars, fnVars>>

\* The thread's function calls call_openai_generate_markdown (the two-step
\* function first reads the extraction artifact back).
WorkerCall ==
    /\ worker \in {"gen_only", "two_step"}
    /\ worker' = IF worker = "gen_only" THEN "gen_only_call" ELSE "two_step_call"
    /\ report_state' = "running"
    /\ UNCHANGED <<windowVars, pc, exit_code, fetchVars, aggVars, optVars, detach_openai,
                   json_input, extract_state, structured_json_text, extract_artifact,
                   report_artifact, fnVars>>

\* How the thread's function ends when the Report Stage call raised:
\* _run_two_step_generate_sync catches and logs it and returns; _gen_only
\* has no handler.
EndAfterFailure(w) == IF w = "two_step_call" THEN "returned" ELSE "raised"

\* The call returns Markdown, which is written to the report, or raises.
WorkerReturn ==
    /\ worker \in {"gen_only_call", "two_step_call"}
    /\ \E ok \in BOOLEAN :
          IF ok
          THEN /\ report_state' = "ok"
               /\ report_artifact' = Some(<<"md">>)
               /\ worker' = "returned"
          ELSE /\ report_state' = "failed"
               /\ worker' = EndAfterFailure(worker)
               /\ UNCHANGED report_artifact
    /\ UNCHANGED <<windowVars, pc, exit_code, fetchVars, aggVars, optVars, detach_openai,
                   json_input, extract_state, structured_json_text, extract_artifact, fnVars>>

\* main has ended and the interpreter shuts down: a daemon thread that has
\* not finished is stopped where it is.
InterpreterExit ==
    /\ exit_code # None
    /\ detach_openai
    /\ worker \in {"gen_only", "two_step", "gen_only_call", "two_step_call"}
    /\ worker' = "killed"
    /\ UNCHANGED <<windowVars, pc, exit_code, fetchVars, aggVars, optVars, detach_openai,
                   json_input, extract_state, report_state, structured_json_text,
                   extract_artifact, report_artifact, fnVars>>

\* Outlook to merged payload: main up to the point where ALL_*.txt is written.
NextFetch ==
    \/ FetchUnavailable
    \/ RestrictItems
    \/ LoopItem
    \/ LoopEnd
    \/ Aggregate

\* From the merged payload on: dump, skip, key, the two stages, the thread.
NextGen ==
    \/ OptionalDump
    \/ SkipOpenAI
    \/ CheckKey
    \/ JsonInput
    \/ GenOnlyDetach
    \/ GenOnlyCall
    \/ GenOnlyReturn
    \/ ExtractCall
    \/ ExtractReturn
    \/ OnlyExtract
    \/ Step2Detach
    \/ Step2Polling
    \/ Poll
    \/ PollDone
    \/ WorkerCall
    \/ WorkerReturn
    \/ InterpreterExit

Next == NextFetch \/ MockEmails \/ NextGen

\* Every run of main().
Spec == Init /\ [][Next]_vars

\* The runs of main() against Outlook, followed up to the merged payload.
SpecFetch == Init /\ [][NextFetch]_vars

\* The runs of main() with USE_MOCK_EMAILS=true, followed to their end.
NextMockRun == MockEmails \/ Aggregate \/ NextGen

SpecMockRun == Init /\ [][NextMockRun]_vars

\* ------------------------------------------ the aggregation step on its own
\* Records handed to the dedupe-and-sort step: any id (or none), any
\* timestamp (or none); the body file of the k-th record is <<"rec", k>>.
AggFields == [received : {None} \cup {Some(t) : t \in Time},
              message_id : {"", "A", "B"}]

AggRecord(k, f) ==
    [txt |-> <<"rec", k>>, received |-> f.received, message_id |-> f.message_id,
     date_source |-> "received_time", raw_received |-> 0]

InitAgg ==
    /\ Window
    /\ pc = "dedupe"
    /\ exit_code = None
    /\ items = NoItems
    /\ i = 1
    /\ last = NoLast
    /\ \E n \in 0..MaxRecs : \E f \in [1..n -> AggFields] :
          /\ fetched = [k \in 1..n |-> AggRecord(k, f[k])]
          /\ disk = {<<"rec", k>> : k \in 1..n}
    /\ saved_emails = <<>>
    /\ start = 0
    /\ end = 0
    /\ payload = <<>>
    /\ dumped = FALSE
    /\ only_dump = FALSE
    /\ only_extract = FALSE
    /\ detach_openai = FALSE
    /\ json_input = "unread"
    /\ extract_state = "idle"
    /\ report_state = "idle"
    /\ structured_json_text = <<>>
    /\ extract_artifact = None
    /\ report_artifact = None
    /\ worker = "none"
    /\ arg = None
    /\ ret = None

NextAgg == Aggregate

SpecAgg == InitAgg /\ [][NextAgg]_vars

\* --------------------------------------------- the normaliser on its own
InitNorm ==
    /\ Window
    /\ pc = "normalize"
    /\ Fresh
    /\ arg \in {Some(m) : m \in {x \in Messages : x.ReceivedTime # None}}
    /\ ret = None

Normalize ==
    /\ pc = "normalize"
    /\ ret' = Some(save_mail_and_attachments(Val(arg)))
    /\ pc' = "normalized"
    /\ UNCHANGED <<windowVars, exit_code, fetchVars, aggVars, optVars, genVars, arg>>

NextNorm == Normalize

SpecNorm == InitNorm /\ [][NextNorm]_vars

\* ------------------------------------------ the range resolver on its own
ResolverInputs ==
    [has_items : BOOLEAN, dasl : RestrictOutcomes, mapi : RestrictOutcomes, total : 0..MaxMsgs]

InitRestrict ==
    /\ Window
    /\ pc = "restrict"
    /\ Fresh
    /\ arg \in {Some(x) : x \in ResolverInputs}
    /\ ret = None

ResolveRange ==
    /\ pc = "restrict"
    /\ LET x == Val(arg)
       IN  ret' = Some(restrict_items_range(x.has_items, x.dasl, x.mapi, x.total))
    /\ pc' = "restricted"
    /\ UNCHANGED <<windowVars, exit_code, fetchVars, aggVars, optVars, genVars, arg>>

NextRestrict == ResolveRange

SpecRestrict == InitRestrict /\ [][NextRestrict]_vars

\* ------------------------------------ the extractor's result on its own
RECURSIVE TextsOfLen(_)
TextsOfLen(n) ==
    IF n = 0 THEN {<<>>}
    ELSE {Append(t, c) : t \in TextsOfLen(n - 1), c \in Chars}

Texts == UNION {TextsOfLen(n) : n \in 0..MaxLen}

InitExt ==
    /\ Window
    /\ pc = "extracting"
    /\ Fresh
    /\ arg \in {Some(t) : t \in Texts}
    /\ ret = None

ExtractOnly ==
    /\ pc = "extracting"
    /\ arg # None
    /\ ret' = Some(ExtractResult(Val(arg)))
    /\ pc' = "extracted"
    /\ UNCHANGED <<windowVars, exit_code, fetchVars, aggVars, optVars, genVars, arg>>

\* The recovery step applied to the text directly.
RecoverOnly ==
    /\ pc = "extracting"
    /\ arg # None
    /\ ret' = Some(_extract_first_json_block(Val(arg)))
    /\ pc' = "recovered"
    /\ UNCHANGED <<windowVars, exit_code, fetchVars, aggVars, optVars, genVars, arg>>

NextExt == ExtractOnly \/ RecoverOnly

SpecExt == InitExt /\ [][NextExt]_vars

\* ================================================================ properties
InWindow(t) == since <= t /\ t <= until

\* The two-step path run without DETACH_OPENAI: main waits on the task.
PollingWait == ~detach_openai /\ worker # "none"

\* ---------------------------------------------------------------------- C1
\* C1: within one run the Report Stage call begins only after the Extraction
\* Stage call has completed (returned or failed); the only runs in which it
\* begins without a completed extraction are those given --json-input, and in
\* those the Extraction Stage is never invoked.
C1_ExtractionBeforeReport ==
    /\ report_state # "idle" => (json_input = "ok" \/ extract_state \in {"ok", "failed"})
    /\ json_input = "ok" => extract_state = "idle"

C1_Witness ==
    /\ json_input = "absent"
    /\ extract_state = "ok"
    /\ report_state = "running"

\* ---------------------------------------------------------------------- C2
\* C2: in polling-wait mode a Report Stage failure is surfaced to the caller:
\* the run does not end with the normal status when the Report Stage raised.
C2_PollingSurfacesFailure ==
    (PollingWait /\ report_state = "failed" /\ exit_code # None) => exit_code # Some(0)

\* ---------------------------------------------------------------------- C3
\* C3 as stated: in detached mode every stage runs on the separate worker, the
\* caller never waiting on one, and no stage's error changes the caller's
\* outcome.
C3_WholeSequenceDetached ==
    detach_openai =>
        /\ (extract_state = "running" \/ report_state = "running") => worker # "none"
        /\ (extract_state = "failed" \/ report_state = "failed") => exit_code \in {None, Some(0)}

\* C3 amended: in detached mode the Report Stage alone runs on the separate
\* worker: main has returned with status 0 before the Report Stage begins and
\* whatever its outcome; the Extraction Stage, unless bypassed, runs in main
\* before any worker exists, and its failure ends the run with status 6.
C3_ReportStageDetached ==
    detach_openai =>
        /\ worker # "none" => exit_code = Some(0)
        /\ report_state # "idle" => (worker # "none" /\ exit_code = Some(0))
        /\ extract_state = "running" => (worker = "none" /\ pc = "extracting" /\ exit_code = None)
        /\ extract_state = "failed" => (worker = "none" /\ exit_code = Some(6))

C3_Witness ==
    /\ detach_openai
    /\ json_input = "absent"
    /\ report_state = "failed"
    /\ exit_code = Some(0)

\* ---------------------------------------------------------------------- C4
\* C4: once the label is computed, its start and end days both lie inside the
\* requested window [since, until] (so start <= end), whatever the canonical
\* timestamps are; with no timestamp at all they are since and until.
C4_LabelInsideWindow ==
    pc = "dump" =>
        /\ InWindow(start)
        /\ InWindow(end)
        /\ start <= end
        /\ Dates(saved_emails) = {} => (start = since /\ end = until)

\* ---------------------------------------------------------------------- C5
\* C5: whichever way the items were restricted, every record the loop appends
\* (and so every record the aggregator sees) has its receipt time inside
\* [since, until]; no body file is written for a receipt time outside it; and
\* a message is discarded as out of window exactly on its receipt time: the
\* loop reports 'out of window' only for a receipt time outside the window,
\* never for one inside it, whatever the header date is.
C5_WindowFilterOnReceiptTime ==
    /\ \A k \in 1..Len(fetched) : InWindow(fetched[k].raw_received)
    /\ \A k \in 1..Len(saved_emails) : InWindow(saved_emails[k].raw_received)
    /\ \A f \in disk : f[1] = "mail" => InWindow(f[2])
    /\ last.kind = "out_of_window" => ~InWindow(Val(last.raw_received))
    /\ last.kind \in {"saved", "failed"} => InWindow(Val(last.raw_received))

\* A message kept although its header date lies outside the window, out of an
\* unfiltered item collection.
C5_Witness ==
    /\ items.via = "all"
    /\ last.kind = "saved"
    /\ \E k \in 1..Len(fetched) :
          /\ fetched[k].date_source = "header_date"
          /\ ~InWindow(Val(fetched[k].received))

\* ---------------------------------------------------------------------- C6
\* The Date header of a block: its first line named 'date' in any case.
HasDateValue(block) ==
    /\ block # None
    /\ \E k \in 1..Len(Val(block)) :
          /\ Val(block)[k].name \in {"Date", "date"}
          /\ \A j \in 1..(k - 1) : Val(block)[j].name \notin {"Date", "date"}
          /\ Val(block)[k].value.kind = "date"

DateValue(block) ==
    LET k == CHOOSE n \in 1..Len(Val(block)) :
                 /\ Val(block)[n].name \in {"Date", "date"}
                 /\ \A j \in 1..(n - 1) : Val(block)[j].name \notin {"Date", "date"}
    IN  Val(Val(block)[k].value.dt)

\* A datetime as local wall-clock day: shifted from its own zone to the local
\* one when it carries a zone.
Localized(d) == IF d.tz = None THEN d.t ELSE d.t - Val(d.tz) + LocalUtcOffset

Range(seq) == {seq[k] : k \in 1..Len(seq)}
HasId(r) == r.message_id # ""

\* C7: deduplication keeps, for each identity, exactly the first record in
\* input order and drops every later one; a record with no identity is never
\* dropped.  So no two kept records share an identity and every identity of
\* the input is kept exactly once.
C7_DedupeKeepsFirstSeen ==
    pc = "dump" =>
        /\ \A k \in 1..Len(fetched) :
              fetched[k] \in Range(saved_emails)
                  <=> \/ ~HasId(fetched[k])
                      \/ \A j \in 1..(k - 1) : fetched[j].message_id # fetched[k].message_id
        /\ Range(saved_emails) \subseteq Range(fetched)
        /\ \A a, b \in 1..Len(saved_emails) :
              (a # b /\ HasId(saved_emails[a]))
                  => saved_emails[a].message_id # saved_emails[b].message_id
        /\ \A a, b \in 1..Len(saved_emails) : a # b => saved_emails[a] # saved_emails[b]
        /\ \A k \in 1..Len(fetched) :
              HasId(fetched[k])
                  => Cardinality({a \in 1..Len(saved_emails) :
                                     saved_emails[a].message_id = fetched[k].message_id}) = 1

\* A later record of an id dropped.
C7_Witness ==
    /\ pc = "dump"
    /\ Len(fetched) = 2
    /\ HasId(fetched[1])
    /\ fetched[2].message_id = fetched[1].message_id
    /\ fetched[2].received # fetched[1].received
    /\ saved_emails = <<fetched[1]>>

\* ---------------------------------------------------------------------- C8
\* C8: dedupe-then-sort is idempotent: applied to its own output, or to the
\* input with one more record carrying an identity the input already has, it
\* gives the sequence it gave for the input.
C8_DedupeSortIdempotent ==
    pc = "dump" =>
        /\ DedupeAndSort(saved_emails, since) = saved_emails
        /\ \A f \in AggFields :
              (f.message_id # "" /\ \E k \in 1..Len(fetched) : fetched[k].message_id = f.message_id)
                  => DedupeAndSort(Append(fetched, AggRecord(Len(fetched) + 1, f)), since)
                         = saved_emails

\* Two records kept and put in another order than they came in.
C8_Witness ==
    /\ pc = "dump"
    /\ Len(saved_emails) = 2
    /\ HasId(saved_emails[1])
    /\ saved_emails # fetched

\* ---------------------------------------------------------------------- C9
\* The day a record is ordered by: its canonical timestamp, the window's
\* since bound when it has none.
OrderedBy(r) == IF r.received = None THEN since ELSE r.received[1]
\* Position of a record in the input (its body file is <<"rec", position>>).
InputPos(r) == r.txt[2]

\* C9: after the ordering step the records are non-decreasing in canonical
\* timestamp (a record without one counting as since), records with equal
\* timestamps keep their input order, and the payload has one block per
\* record, in exactly this order.
C9_StableOrderAndPayload ==
    pc = "dump" =>
        /\ \A a, b \in 1..Len(saved_emails) :
              a < b => /\ OrderedBy(saved_emails[a]) <= OrderedBy(saved_emails[b])
                       /\ OrderedBy(saved_emails[a]) = OrderedBy(saved_emails[b])
                             => InputPos(saved_emails[a]) < InputPos(saved_emails[b])
        /\ Len(payload) = Len(saved_emails)
        /\ \A k \in 1..Len(payload) :
              /\ payload[k].idx = k
              /\ payload[k].of = Len(saved_emails)
              /\ payload[k].text = <<saved_emails[k].txt>>

\* A record without a timestamp tied with one dated since, input order kept.
C9_Witness ==
    /\ pc = "dump"
    /\ Len(saved_emails) = 2
    /\ saved_emails[1].received = None
    /\ saved_emails[2].received = Some(since)
    /\ Len(payload) = 2

\* --------------------------------------------------------------------- C10
\* The recovery attempts on a response: the direct parse, the slice from the
\* first '{' to the last '}', the brace-delimited regex block.
SomeAttemptIsJSON(text) ==
    \/ IsJSON(text)
    \/ \E a, b \in 1..Len(text) :
          /\ a < b
          /\ text[a] = "{"
          /\ text[b] = "}"
          /\ \A j \in 1..(a - 1) : text[j] # "{"
          /\ \A j \in (b + 1)..Len(text) : text[j] # "}"
          /\ IsJSON(SubSeq(text, a, b))
    \/ (RegexBraceBlock(text) # None /\ IsJSON(Val(RegexBraceBlock(text))))

\* C10: when no recovery attempt yields valid JSON the Extraction Stage
\* returns the response text unchanged (the text as the stage holds it, that
\* is after content.strip()), not a slice of it.
C10_RawTextWhenUnrecoverable ==
    pc = "extracted" =>
        (~SomeAttemptIsJSON(Strip(Val(arg))) => Val(ret) = Strip(Val(arg)))

\* --------------------------------------------------------------------- C11
\* A response that is prose around one valid JSON object: one slice a..b is
\* an object, there is no brace outside it and there is text outside it.
ObjectAt(text, a, b) ==
    /\ a < b
    /\ text[a] = "{"
    /\ text[b] = "}"
    /\ IsJSON(SubSeq(text, a, b))
    /\ \A j \in (1..(a - 1)) \cup ((b + 1)..Len(text)) : text[j] \notin {"{", "}"}

ProseAroundObject(text) ==
    \E a, b \in 1..Len(text) : ObjectAt(text, a, b) /\ (a > 1 \/ b < Len(text))

EmbeddedObject(text) ==
    LET ab == CHOOSE ab \in (1..Len(text)) \X (1..Len(text)) : ObjectAt(text, ab[1], ab[2])
    IN  SubSeq(text, ab[1], ab[2])

\* A response with no brace-delimited content: no '{' with a '}' after it.
NoBraceContent(text) ==
    ~\E a, b \in 1..Len(text) : a < b /\ text[a] = "{" /\ text[b] = "}"

Step2Attempted(r) == r.via \in {"mapi", "all"}
Rejected(outcome) == outcome.kind = "raise"

\* C12 as stated: the MAPI restriction is attempted only if the DASL one
\* raised (was rejected); the unfiltered collection is returned only if both
\* raised; a DASL restriction accepted without error is the result.
C12_FallbackOnlyOnError ==
    (pc = "restricted" /\ Val(arg).has_items) =>
        LET x == Val(arg)
            r == Val(ret)
        IN  /\ Step2Attempted(r) => Rejected(x.dasl)
            /\ r.via = "all" => (Rejected(x.dasl) /\ Rejected(x.mapi))
            /\ ~Rejected(x.dasl) => (r.via = "dasl" /\ r.Count = x.dasl.Count)

\* The DASL restriction is final when it was accepted and its Count is
\* positive or cannot be read.
Step1Final(dasl) == dasl.kind = "ok_no_count" \/ (dasl.kind = "ok" /\ dasl.Count > 0)

\* C12 amended: the MAPI restriction is attempted exactly when the DASL one
\* raised or was accepted with an empty result (Count 0); an accepted MAPI
\* restriction is the result whatever its Count; the unfiltered collection
\* is returned exactly when the DASL restriction was not final and the MAPI
\* one raised; a DASL restriction accepted with a positive (or unreadable)
\* Count is the result and the MAPI restriction is not attempted.
C12_FallbackOnErrorOrEmpty ==
    pc = "restricted" =>
        LET x == Val(arg)
            r == Val(ret)
        IN  IF ~x.has_items THEN r = NoItems
            ELSE /\ Step2Attempted(r) <=> ~Step1Final(x.dasl)
                 /\ r.via = "dasl" <=> Step1Final(x.dasl)
                 /\ r.via = "mapi" <=> (~Step1Final(x.dasl) /\ ~Rejected(x.mapi))
                 /\ r.via = "all" <=> (~Step1Final(x.dasl) /\ Rejected(x.mapi))
                 /\ r.via = "dasl" => r.Count = x.dasl.Count
                 /\ r.via = "mapi" => r.Count = x.mapi.Count
                 /\ r.via = "all" => r.Count = x.total

\* The DASL restriction accepted but empty, the MAPI one rejected: the
\* unfiltered collection comes back.
C12_Witness ==
    /\ pc = "restricted"
    /\ Val(arg).has_items
    /\ Val(arg).dasl = [kind |-> "ok", Count |-> 0]
    /\ Rejected(Val(arg).mapi)
    /\ Val(arg).total > 0
    /\ Val(ret).via = "all"
    /\ Val(ret).Count = Val(arg).total

\* --------------------------------------------------------------------- C13
\* The extraction artifact was written and what it holds is not valid JSON.
MalformedExtraction == extract_artifact # None /\ ~Val(extract_artifact).valid

\* The raw text was persisted and the run was not aborted over it.
RawPersistedNonFatal ==
    /\ extract_state = "ok"
    /\ Val(extract_artifact).text = structured_json_text
    /\ ~IsJSON(structured_json_text)
    /\ exit_code \in {None, Some(0)}
    /\ pc = "only_extract" => exit_code = None

\* The Report Stage was handed to a worker or has been called.
ReportInvoked == worker # "none" \/ report_state # "idle"

\* C13 as stated: malformed extraction output does not abort the run and is
\* persisted raw, and the Report Stage is invoked on it only with explicit
\* permission to continue.  main reads no argument and no environment value
\* that gives such permission, so no run has it.
C13_ReportOnlyIfAllowed ==
    MalformedExtraction => (RawPersistedNonFatal /\ ~ReportInvoked)

\* C13 amended: malformed extraction output does not abort the run and is
\* persisted raw, and main goes on to the Report Stage by default: it is left
\* out exactly when --only-extract was given.
C13_MalformedContinuesUnlessOnlyExtract ==
    MalformedExtraction =>
        /\ RawPersistedNonFatal
        /\ only_extract => (~ReportInvoked /\ exit_code = Some(0))
        /\ (~only_extract /\ pc \in {"polling", "done"}) => ReportInvoked
        /\ pc \in {"only_extract", "step2", "polling", "done"}

\* A report written from an extraction artifact that is not JSON.
C13_Witness ==
    /\ MalformedExtraction
    /\ ~only_extract
    /\ report_state = "ok"
    /\ report_artifact # None
    /\ exit_code = Some(0)

\* --------------------------------------------------------------------- C14
\* The extractor call raised: nothing was written, the Report Stage was not
\* invoked, main ended with status 6.
AfterExtractionFailure ==
    /\ extract_artifact = None
    /\ report_artifact = None
    /\ report_state = "idle"
    /\ worker = "none"
    /\ pc = "done"
    /\ exit_code = Some(6)

\* C14: an error raised by the extractor call is fatal to the run: the run
\* ends with status 6, which no other cause gives; neither artifact exists
\* then or is written later; the Report Stage is never invoked; and the
\* extractor is called at most once per run: a call that has ended, failed
\* or not, is never followed by another.
C14_ExtractionFailureIsFatal ==
    /\ [](extract_state = "failed" => AfterExtractionFailure)
    /\ [](exit_code = Some(6) => extract_state = "failed")
    /\ [][(extract_state # "idle" /\ extract_state # "running") => extract_state' = extract_state]_vars
    /\ [][extract_state = "failed" =>
            UNCHANGED <<pc, exit_code, extract_artifact, report_artifact, report_state, worker>>]_vars

\* The extractor call raised in a run that had its merged payload written.
C14_Witness ==
    /\ extract_state = "failed"
    /\ exit_code = Some(6)
    /\ json_input = "absent"
    /\ Len(payload) = 1
    /\ extract_artifact = None

\* --------------------------------------------------------------------- C15
\* C15: whenever --only-dump is given the text-generation collaborator is
\* never called, neither by the Extraction Stage nor by the Report Stage, in
\* main or on a worker, whether or not a dump path was given.
C15_OnlyDumpSkipsGeneration ==
    only_dump =>
        /\ extract_state = "idle"
        /\ report_state = "idle"
        /\ worker = "none"

\* --------------------------------------------------------------------- C16
\* C16: in detached mode main's return cannot keep the worker from finishing
\* the report: a worker that was started is never stopped short of its end,
\* so a Report Stage call that succeeds always has its Markdown written.
C16_DetachedWorkerCompletes ==
    detach_openai =>
        /\ worker # "killed"
        /\ report_state = "ok" => report_artifact # None

====
